---- MODULE Spec2Model ----
(***************************************************************************)
(* Model of stack.py: a linked-frame stack with a constant-time min().     *)
(* Python objects are encoded uniformly as records [kind, n, items] so     *)
(* that Python's structural == on ints, None, lists and tuples is plain    *)
(* equality of the encodings.  A StackFrame is a namedtuple, i.e. a        *)
(* 2-tuple (subframe, value).                                              *)
(***************************************************************************)
EXTENDS Integers, Sequences, FiniteSets, TLC

\* ---------------------------------------------------------------- bounds
MaxInt == 2
MaxDepth == 3
MaxCtorLen == 2
MaxIterDepth == 2

\* ------------------------------------------------------- Python objects
PyNone == [kind |-> "none", n |-> 0, items |-> <<>>]
PyInt(i) == [kind |-> "int", n |-> i, items |-> <<>>]
PyList(s) == [kind |-> "list", n |-> 0, items |-> s]
PyTuple(s) == [kind |-> "tuple", n |-> 0, items |-> s]

\* an instance attribute that has not been assigned yet
Unset == [kind |-> "unset", n |-> 0, items |-> <<>>]

\* StackFrame = namedtuple('StackFrame', ['subframe', 'value'])
StackFrame(subframe, value) == PyTuple(<<subframe, value>>)

\* _SENTINEL = StackFrame(subframe=(), value=None)
SENTINEL == StackFrame(PyTuple(<<>>), PyNone)

\* x is a StackFrame, so x.subframe and x.value exist.  The only tuple that
\* top, top_min or iter_curr can hold besides a StackFrame is the empty
\* tuple (), the subframe of _SENTINEL, which has neither attribute.
HasFrameAttrs(x) == x.kind = "tuple" /\ Len(x.items) = 2

\* Python's <= on the modelled objects: "True", "False" or "TypeError".
\* ints compare numerically; two lists (or two tuples) compare
\* lexicographically on the first differing item; every other pairing
\* (None with anything, int with list, list with tuple) raises TypeError.
RECURSIVE Le(_, _)
Le(a, b) ==
    IF a.kind = "int" /\ b.kind = "int"
    THEN (IF a.n <= b.n THEN "True" ELSE "False")
    ELSE IF a.kind = b.kind /\ a.kind \in {"list", "tuple"}
    THEN LET m == IF Len(a.items) <= Len(b.items) THEN Len(a.items) ELSE Len(b.items)
             diff == {i \in 1..m : a.items[i] # b.items[i]}
         IN IF diff = {}
            THEN (IF Len(a.items) <= Len(b.items) THEN "True" ELSE "False")
            ELSE LET i == CHOOSE j \in diff : \A k \in diff : j <= k
                 IN Le(a.items[i], b.items[i])
    ELSE "TypeError"

\* `for val in values` works on lists and tuples; on an int or None it
\* raises TypeError
Iterable(x) == x.kind \in {"list", "tuple"}

\* ------------------------------------------------------------- methods
\* Every method maps the object's attributes `self` (and its arguments) to
\* [self |-> attributes afterwards, ret |-> return value, exc |-> the
\* exception raised, "" for none].

\* is_empty: self.top == type(self)._SENTINEL
is_empty(self) == self.top = SENTINEL

\* the auxiliary-stack decision that records every comparable value
PushAuxAlways(self, new_top) ==
    IF self.top_min = SENTINEL
    THEN [self |-> [self EXCEPT !.top_min = StackFrame(self.top_min, new_top)],
          ret |-> PyNone, exc |-> ""]
    ELSE IF ~HasFrameAttrs(self.top_min)
    THEN [self |-> self, ret |-> PyNone, exc |-> "AttributeError"]
    ELSE IF Le(new_top, self.top_min.items[2]) = "TypeError"
    THEN [self |-> self, ret |-> PyNone, exc |-> "IncomparableValueError"]
    ELSE [self |-> [self EXCEPT !.top_min = StackFrame(self.top_min, new_top)],
          ret |-> PyNone, exc |-> ""]

\* PushAux with `<` in place of `<=`: a tie with the minimum is not recorded
PushAuxStrict(self, new_top) ==
    IF self.top_min = SENTINEL
    THEN [self |-> [self EXCEPT !.top_min = StackFrame(self.top_min, new_top)],
          ret |-> PyNone, exc |-> ""]
    ELSE IF ~HasFrameAttrs(self.top_min)
    THEN [self |-> self, ret |-> PyNone, exc |-> "AttributeError"]
    ELSE IF Le(new_top, self.top_min.items[2]) = "TypeError"
    THEN [self |-> self, ret |-> PyNone, exc |-> "IncomparableValueError"]
    ELSE IF Le(new_top, self.top_min.items[2]) = "True"
              /\ new_top # self.top_min.items[2]
    THEN [self |-> [self EXCEPT !.top_min = StackFrame(self.top_min, new_top)],
          ret |-> PyNone, exc |-> ""]
    ELSE [self |-> self, ret |-> PyNone, exc |-> ""]

\* lines 188-195 of push: the auxiliary-stack decision, taken after the
\* main stack has been updated
PushAux(self, new_top) ==
    IF self.top_min = SENTINEL
    THEN [self |-> [self EXCEPT !.top_min = StackFrame(self.top_min, new_top)],
          ret |-> PyNone, exc |-> ""]
    ELSE IF ~HasFrameAttrs(self.top_min)
    THEN [self |-> self, ret |-> PyNone, exc |-> "AttributeError"]
    ELSE IF Le(new_top, self.top_min.items[2]) = "TypeError"
    THEN [self |-> self, ret |-> PyNone, exc |-> "IncomparableValueError"]
    ELSE IF Le(new_top, self.top_min.items[2]) = "True"
    THEN [self |-> [self EXCEPT !.top_min = StackFrame(self.top_min, new_top)],
          ret |-> PyNone, exc |-> ""]
    ELSE [self |-> self, ret |-> PyNone, exc |-> ""]

\* push without the protected-value check
pushUnprotected(self, new_top) ==
    PushAux([self EXCEPT !.top = StackFrame(self.top, new_top)], new_top)

\* push(self, new_top)
push(self, new_top) ==
    IF new_top = SENTINEL
    THEN [self |-> self, ret |-> PyNone, exc |-> "ProtectedValueError"]
    ELSE PushAux([self EXCEPT !.top = StackFrame(self.top, new_top)], new_top)

\* pop without the emptiness check
popUnchecked(self) ==
    LET old_top == self.top.items[2]
        s1 == [self EXCEPT !.top = self.top.items[1]]
    IN IF ~HasFrameAttrs(s1.top_min)
       THEN [self |-> s1, ret |-> PyNone, exc |-> "AttributeError"]
       ELSE IF s1.top_min.items[2] = old_top
       THEN [self |-> [s1 EXCEPT !.top_min = s1.top_min.items[1]],
             ret |-> old_top, exc |-> ""]
       ELSE [self |-> s1, ret |-> old_top, exc |-> ""]

\* pop returning the value of the new top instead of the removed one
popReturnsNewTop(self) ==
    IF is_empty(self)
    THEN [self |-> self, ret |-> PyNone, exc |-> "EmptyStackPopError"]
    ELSE LET old_top == self.top.items[2]
             s1 == [self EXCEPT !.top = self.top.items[1]]
             s2 == IF HasFrameAttrs(s1.top_min) /\ s1.top_min.items[2] = old_top
                   THEN [s1 EXCEPT !.top_min = s1.top_min.items[1]]
                   ELSE s1
         IN [self |-> s2, ret |-> s1.top.items[2], exc |-> ""]

\* pop that advances top_min whatever the removed value is
popAlwaysAdvancesMin(self) ==
    IF is_empty(self)
    THEN [self |-> self, ret |-> PyNone, exc |-> "EmptyStackPopError"]
    ELSE LET old_top == self.top.items[2]
             s1 == [self EXCEPT !.top = self.top.items[1]]
         IN IF ~HasFrameAttrs(s1.top_min)
            THEN [self |-> s1, ret |-> PyNone, exc |-> "AttributeError"]
            ELSE [self |-> [s1 EXCEPT !.top_min = s1.top_min.items[1]],
                  ret |-> old_top, exc |-> ""]

\* pop that never advances top_min
popNeverAdvancesMin(self) ==
    IF is_empty(self)
    THEN [self |-> self, ret |-> PyNone, exc |-> "EmptyStackPopError"]
    ELSE LET old_top == self.top.items[2]
             s1 == [self EXCEPT !.top = self.top.items[1]]
         IN IF ~HasFrameAttrs(s1.top_min)
            THEN [self |-> s1, ret |-> PyNone, exc |-> "AttributeError"]
            ELSE [self |-> s1, ret |-> old_top, exc |-> ""]

\* pop that moves an iteration standing on the removed frame along with top
popMovesIter(self) ==
    IF is_empty(self)
    THEN [self |-> self, ret |-> PyNone, exc |-> "EmptyStackPopError"]
    ELSE LET old_top == self.top.items[2]
             s0 == IF self.iter_curr = self.top
                   THEN [self EXCEPT !.iter_curr = self.top.items[1]]
                   ELSE self
             s1 == [s0 EXCEPT !.top = self.top.items[1]]
         IN IF ~HasFrameAttrs(s1.top_min)
            THEN [self |-> s1, ret |-> PyNone, exc |-> "AttributeError"]
            ELSE IF s1.top_min.items[2] = old_top
            THEN [self |-> [s1 EXCEPT !.top_min = s1.top_min.items[1]],
                  ret |-> old_top, exc |-> ""]
            ELSE [self |-> s1, ret |-> old_top, exc |-> ""]

\* pop that compares the minimum with the value of the new top
popComparesNewTop(self) ==
    IF is_empty(self)
    THEN [self |-> self, ret |-> PyNone, exc |-> "EmptyStackPopError"]
    ELSE LET old_top == self.top.items[2]
             s1 == [self EXCEPT !.top = self.top.items[1]]
         IN IF ~HasFrameAttrs(s1.top_min) \/ ~HasFrameAttrs(s1.top)
            THEN [self |-> s1, ret |-> PyNone, exc |-> "AttributeError"]
            ELSE IF s1.top_min.items[2] = s1.top.items[2]
            THEN [self |-> [s1 EXCEPT !.top_min = s1.top_min.items[1]],
                  ret |-> old_top, exc |-> ""]
            ELSE [self |-> s1, ret |-> old_top, exc |-> ""]

\* pop(self)
pop(self) ==
    IF is_empty(self)
    THEN [self |-> self, ret |-> PyNone, exc |-> "EmptyStackPopError"]
    ELSE LET old_top == self.top.items[2]
             s1 == [self EXCEPT !.top = self.top.items[1]]
         IN IF ~HasFrameAttrs(s1.top_min)
            THEN [self |-> s1, ret |-> PyNone, exc |-> "AttributeError"]
            ELSE IF s1.top_min.items[2] = old_top
            THEN [self |-> [s1 EXCEPT !.top_min = s1.top_min.items[1]],
                  ret |-> old_top, exc |-> ""]
            ELSE [self |-> s1, ret |-> old_top, exc |-> ""]

\* min(self): return self.top_min.value
min(self) ==
    IF HasFrameAttrs(self.top_min)
    THEN [self |-> self, ret |-> self.top_min.items[2], exc |-> ""]
    ELSE [self |-> self, ret |-> PyNone, exc |-> "AttributeError"]

\* __iter__(self): self.iter_curr = self.top; return self
iter(self) ==
    [self |-> [self EXCEPT !.iter_curr = self.top], ret |-> PyNone, exc |-> ""]

\* __next__ that takes the yielded frame off the main stack as well
nextPops(self) ==
    IF self.iter_curr = Unset
    THEN [self |-> self, ret |-> PyNone, exc |-> "AttributeError"]
    ELSE IF self.iter_curr # SENTINEL
    THEN [self |-> [self EXCEPT !.iter_curr = self.iter_curr.items[1],
                                !.top = self.iter_curr.items[1]],
          ret |-> self.iter_curr.items[2], exc |-> ""]
    ELSE [self |-> self, ret |-> PyNone, exc |-> "StopIteration"]

\* __next__(self)
next(self) ==
    IF self.iter_curr = Unset
    THEN [self |-> self, ret |-> PyNone, exc |-> "AttributeError"]
    ELSE IF self.iter_curr # SENTINEL
    THEN [self |-> [self EXCEPT !.iter_curr = self.iter_curr.items[1]],
          ret |-> self.iter_curr.items[2], exc |-> ""]
    ELSE [self |-> self, ret |-> PyNone, exc |-> "StopIteration"]

\* list(self): iter(self), then next(self) until StopIteration; `acc` is
\* the list built so far
RECURSIVE Drain(_, _)
Drain(self, acc) ==
    LET r == next(self)
    IN IF r.exc = "StopIteration"
       THEN [self |-> r.self, ret |-> PyList(acc), exc |-> ""]
       ELSE IF r.exc # ""
       THEN [self |-> r.self, ret |-> PyNone, exc |-> r.exc]
       ELSE Drain(r.self, Append(acc, r.ret))

list(self) == Drain(iter(self).self, <<>>)

\* bottom taking list(self)[0]
bottomFirst(self) ==
    IF is_empty(self)
    THEN [self |-> self, ret |-> PyNone, exc |-> ""]
    ELSE LET l == list(self)
         IN [self |-> l.self, ret |-> l.ret.items[1], exc |-> l.exc]

\* bottom(self): None if self.is_empty else list(self)[-1]
bottom(self) ==
    IF is_empty(self)
    THEN [self |-> self, ret |-> PyNone, exc |-> ""]
    ELSE LET l == list(self)
         IN [self |-> l.self, ret |-> l.ret.items[Len(l.ret.items)], exc |-> l.exc]

\* `for val in values: self.push(val)`: stops at the first push that raises.
\* `log` records every push call made: its argument, its exception and
\* whether it put a frame on the main stack.
RECURSIVE PushEach(_, _, _)
PushEach(self, vals, log) ==
    IF vals = <<>>
    THEN [self |-> self, ret |-> PyNone, exc |-> "", pushes |-> log]
    ELSE LET p == push(self, Head(vals))
             e == [arg |-> Head(vals), exc |-> p.exc, landed |-> p.self.top # self.top]
         IN IF p.exc # ""
            THEN [self |-> p.self, ret |-> PyNone, exc |-> p.exc, pushes |-> Append(log, e)]
            ELSE PushEach(p.self, Tail(vals), Append(log, e))

\* the try block of __init__ (lines 133-135): iterating a non-iterable
\* raises TypeError before any push
InitLoop(self, value) ==
    IF Iterable(value)
    THEN PushEach(self, value.items, <<>>)
    ELSE [self |-> self, ret |-> PyNone, exc |-> "TypeError", pushes |-> <<>>]

\* `except TypeError` (line 137) catches TypeError and its subclass
\* IncomparableValueError; ProtectedValueError is a ValueError
IsTypeError(exc) == exc \in {"TypeError", "IncomparableValueError"}

\* `except TypeError: pass`: the single value is never pushed
InitExceptSwallows(r, value) ==
    IF IsTypeError(r.exc)
    THEN [self |-> r.self, ret |-> PyNone, exc |-> "", pushes |-> r.pushes]
    ELSE r

\* the except clause of __init__ (lines 137-138): self.push(values)
InitExcept(r, value) ==
    IF IsTypeError(r.exc)
    THEN LET p == push(r.self, value)
             e == [arg |-> value, exc |-> p.exc, landed |-> p.self.top # r.self.top]
         IN [self |-> p.self, ret |-> PyNone, exc |-> p.exc, pushes |-> Append(r.pushes, e)]
    ELSE r

\* self.top = self.top_min = type(self)._SENTINEL (line 122); iter_curr is
\* not assigned by __init__
EmptyStack == [top |-> SENTINEL, top_min |-> SENTINEL, iter_curr |-> Unset]

\* __init__ without the argument-count check: extra arguments are ignored
initIgnoresExtraArgs(values) ==
    LET s0 == EmptyStack
    IN IF Len(values) = 0
       THEN [self |-> s0, ret |-> PyNone, exc |-> "", pushes |-> <<>>]
       ELSE InitExcept(InitLoop(s0, values[1]), values[1])

\* __init__(self, *values)
init(values) ==
    LET s0 == EmptyStack
    IN IF Len(values) = 0
       THEN [self |-> s0, ret |-> PyNone, exc |-> "", pushes |-> <<>>]
       ELSE IF Len(values) # 1
       THEN [self |-> s0, ret |-> PyNone, exc |-> "TypeError", pushes |-> <<>>]
       ELSE InitExcept(InitLoop(s0, values[1]), values[1])

\* ------------------------------------------------------ chain observers
\* the values held by the frames of a chain, head first, following the
\* subframe links until something that is not a pushed frame
RECURSIVE ChainValues(_)
ChainValues(f) ==
    IF f = SENTINEL \/ ~HasFrameAttrs(f)
    THEN <<>>
    ELSE <<f.items[2]>> \o ChainValues(f.items[1])

\* a chain is a valid stack: its subframe links lead to _SENTINEL
RECURSIVE ValidChain(_)
ValidChain(f) ==
    \/ f = SENTINEL
    \/ HasFrameAttrs(f) /\ ValidChain(f.items[1])

Depth(f) == Len(ChainValues(f))

Reverse(s) == [i \in 1..Len(s) |-> s[Len(s) + 1 - i]]

\* the least int of a non-empty sequence of ints, by a linear scan
MinOf(s) == CHOOSE x \in {s[i] : i \in 1..Len(s)} : \A j \in 1..Len(s) : x.n <= s[j].n

AllInts(s) == \A i \in 1..Len(s) : s[i].kind = "int"

\* a is a subsequence of b: a is b with some elements left out
RECURSIVE IsSubseq(_, _)
IsSubseq(a, b) ==
    IF a = <<>> THEN TRUE
    ELSE IF b = <<>> THEN FALSE
    ELSE IF Head(a) = Head(b) /\ IsSubseq(Tail(a), Tail(b)) THEN TRUE
    ELSE IsSubseq(a, Tail(b))

\* ----------------------------------------------------------- input sets
Ints == {PyInt(i) : i \in 0..MaxInt}
Values == Ints \cup {PyNone, PyList(<<>>)}
PushArgs == Values \cup {SENTINEL}
SeqsUpTo(S, k) == UNION {[1..m -> S] : m \in 0..k}
CtorArgs ==
    {<<>>}
    \cup {<<v>> : v \in PushArgs}
    \cup {<<PyList(s)>> : s \in SeqsUpTo(Values, MaxCtorLen)}
    \cup {<<v, w>> : v \in Values, w \in Values}
    \cup {<<v, w, x>> : v \in Ints, w \in Ints, x \in Ints}

\* the values and constructor arguments used with the iterator protocol
IterValues == {PyInt(0), PyInt(1), PyNone}
IterCtorArgs == {<<>>} \cup {<<PyList(s)>> : s \in SeqsUpTo(IterValues, MaxIterDepth)}

\* the pushes of the class docstring's example (lines 72-76) and its values
Scenario == <<PyInt(10), PyInt(9), PyInt(11), PyInt(0), PyInt(10)>>
ScenarioValues == {Scenario[i] : i \in 1..Len(Scenario)}

\* ---------------------------------------------------------------- state
VARIABLES
    pc,         \* "new" before __init__, "ready" after it returned, "failed" after it raised
    top,        \* self.top
    top_min,    \* self.top_min
    iter_curr,  \* self.iter_curr
    last,       \* the last call: op, arg, ret, exc, the push calls it made, and top/top_min before it
    net,        \* successful push calls minus successful pop calls
    ordered,    \* every value passed to push so far was an int
    present,    \* values the calls so far put on and have not yet taken off the main stack, oldest first
    ctorArg,    \* the sequence the stack was constructed from, until the first push call after construction
    popLog,     \* values returned by the pop calls since construction or the last push call
    yielded,    \* values returned by __next__ since the last __iter__
    iterClean,  \* only __next__ was called since the last __iter__
    prevList,   \* what the undisturbed complete iteration just before the last __iter__ yielded,
                \* while the main stack has not changed since
    iterSnap,   \* the values of the main stack, top first, when __iter__ was last called
    iterMutated, \* push or pop was called since the last __iter__
    iterShared  \* bottom was called since the last __iter__

vars == <<pc, top, top_min, iter_curr, last, net, ordered, present, ctorArg, popLog,
          yielded, iterClean, prevList, iterSnap, iterMutated, iterShared>>

Self == [top |-> top, top_min |-> top_min, iter_curr |-> iter_curr]

Call(op, arg, r, pushes) ==
    [op |-> op, arg |-> arg, ret |-> r.ret, exc |-> r.exc, pushes |-> pushes,
     top |-> top, top_min |-> top_min]

NoList == [valid |-> FALSE, vals |-> <<>>]

Init ==
    /\ pc = "new"
    /\ top = Unset
    /\ top_min = Unset
    /\ iter_curr = Unset
    /\ last = [op |-> "", arg |-> PyNone, ret |-> PyNone, exc |-> "", pushes |-> <<>>,
               top |-> Unset, top_min |-> Unset]
    /\ net = 0
    /\ ordered = TRUE
    /\ present = <<>>
    /\ ctorArg = Unset
    /\ popLog = <<>>
    /\ yielded = <<>>
    /\ iterClean = FALSE
    /\ prevList = NoList
    /\ iterSnap = <<>>
    /\ iterMutated = FALSE
    /\ iterShared = FALSE

SetSelf(s) ==
    /\ top' = s.top
    /\ top_min' = s.top_min
    /\ iter_curr' = s.iter_curr

\* the arguments of the push calls of `log` that put a frame on the main stack
RECURSIVE LandedArgs(_)
LandedArgs(log) ==
    IF log = <<>> THEN <<>>
    ELSE (IF Head(log).landed THEN <<Head(log).arg>> ELSE <<>>) \o LandedArgs(Tail(log))

\* Stack(*values)
Construct(values) ==
    /\ pc = "new"
    /\ LET r == init(values)
       IN /\ pc' = IF r.exc = "" THEN "ready" ELSE "failed"
          /\ SetSelf(r.self)
          /\ last' = Call("__init__", PyTuple(values), r, r.pushes)
          /\ net' = Cardinality({i \in 1..Len(r.pushes) : r.pushes[i].exc = ""})
          /\ ordered' = \A i \in 1..Len(r.pushes) : r.pushes[i].arg.kind = "int"
          /\ present' = LandedArgs(r.pushes)
          /\ ctorArg' = IF Len(values) = 1 /\ Iterable(values[1]) THEN values[1] ELSE Unset
    /\ UNCHANGED <<popLog, yielded, iterClean, prevList, iterSnap, iterMutated, iterShared>>

\* stack.push(v), on a stack of fewer than `limit` frames
PushUpTo(v, limit) ==
    /\ pc = "ready"
    /\ Depth(top) < limit
    /\ LET r == push(Self, v)
       IN /\ SetSelf(r.self)
          /\ last' = Call("push", v, r, <<>>)
          /\ net' = IF r.exc = "" THEN net + 1 ELSE net
          /\ ordered' = (ordered /\ v.kind = "int")
          /\ present' = IF r.self.top # top THEN Append(present, v) ELSE present
          /\ prevList' = IF r.self.top # top THEN NoList ELSE prevList
    /\ ctorArg' = Unset
    /\ popLog' = <<>>
    /\ iterClean' = FALSE
    /\ iterMutated' = TRUE
    /\ UNCHANGED <<pc, yielded, iterSnap, iterShared>>

Push(v) == PushUpTo(v, MaxDepth)

PushIter(v) == PushUpTo(v, MaxIterDepth)

\* stack.pop()
Pop ==
    /\ pc = "ready"
    /\ net > -MaxDepth
    /\ LET r == pop(Self)
       IN /\ SetSelf(r.self)
          /\ last' = Call("pop", PyNone, r, <<>>)
          /\ net' = IF r.exc = "" THEN net - 1 ELSE net
          /\ present' = IF r.self.top # top THEN SubSeq(present, 1, Len(present) - 1) ELSE present
          /\ prevList' = IF r.self.top # top THEN NoList ELSE prevList
          /\ popLog' = IF r.exc = "" THEN Append(popLog, r.ret) ELSE popLog
    /\ iterClean' = FALSE
    /\ iterMutated' = TRUE
    /\ UNCHANGED <<pc, ordered, ctorArg, yielded, iterSnap, iterShared>>

\* stack.min()
Min ==
    /\ pc = "ready"
    /\ LET r == min(Self)
       IN /\ SetSelf(r.self)
          /\ last' = Call("min", PyNone, r, <<>>)
    /\ iterClean' = FALSE
    /\ UNCHANGED <<pc, net, ordered, present, ctorArg, popLog, yielded, prevList,
                   iterSnap, iterMutated, iterShared>>

\* stack.bottom()
Bottom ==
    /\ pc = "ready"
    /\ LET r == bottom(Self)
       IN /\ SetSelf(r.self)
          /\ last' = Call("bottom", PyNone, r, <<>>)
    /\ iterClean' = FALSE
    /\ iterShared' = TRUE
    /\ UNCHANGED <<pc, net, ordered, present, ctorArg, popLog, yielded, prevList,
                   iterSnap, iterMutated>>

\* iter(stack)
Iter ==
    /\ pc = "ready"
    /\ LET r == iter(Self)
       IN /\ SetSelf(r.self)
          /\ last' = Call("__iter__", PyNone, r, <<>>)
    /\ yielded' = <<>>
    /\ iterClean' = TRUE
    /\ iterSnap' = ChainValues(top)
    /\ iterMutated' = FALSE
    /\ iterShared' = FALSE
    /\ prevList' = IF last.op = "__next__" /\ last.exc = "StopIteration" /\ iterClean
                   THEN [valid |-> TRUE, vals |-> yielded]
                   ELSE NoList
    /\ UNCHANGED <<pc, net, ordered, present, ctorArg, popLog>>

\* next(stack)
IterNext ==
    /\ pc = "ready"
    /\ LET r == next(Self)
       IN /\ SetSelf(r.self)
          /\ last' = Call("__next__", PyNone, r, <<>>)
          /\ yielded' = IF r.exc = "" THEN Append(yielded, r.ret) ELSE yielded
    /\ UNCHANGED <<pc, net, ordered, present, ctorArg, popLog, iterClean, prevList,
                   iterSnap, iterMutated, iterShared>>

\* the methods called as methods: construction, push, pop, min, bottom
Next ==
    \/ \E values \in CtorArgs : Construct(values)
    \/ \E v \in PushArgs : Push(v)
    \/ Pop
    \/ Min
    \/ Bottom

Spec == Init /\ [][Next]_vars

\* the iterator protocol interleaved with push, pop and bottom
NextIter ==
    \/ \E values \in IterCtorArgs : Construct(values)
    \/ \E v \in IterValues : PushIter(v)
    \/ Pop
    \/ Bottom
    \/ Iter
    \/ IterNext

SpecIter == Init /\ [][NextIter]_vars

\* the docstring's example: an empty stack, pushes of its values, pops, min
PushScenario(v) == PushUpTo(v, Len(Scenario))

NextScenario ==
    \/ Construct(<<>>)
    \/ \E v \in ScenarioValues : PushScenario(v)
    \/ Pop
    \/ Min

SpecScenario == Init /\ [][NextScenario]_vars

\* ---------------------------------------------------------------- claims

\* C1: after any calls of push and pop with int values only, whenever the
\* stack is non-empty min() returns the least value on the main chain.
MinIsMinimumOfMain ==
    (pc = "ready" /\ ordered /\ ~is_empty(Self)) =>
        /\ min(Self).exc = ""
        /\ min(Self).ret = MinOf(ChainValues(top))

\* C1 witness: a pop has just removed the minimum from a stack that still
\* holds two values, so min() had to go back to an older minimum.
MinIsMinimumOfMainWitness ==
    /\ pc = "ready" /\ ordered
    /\ last.op = "pop" /\ last.exc = ""
    /\ Depth(top) >= 2
    /\ min(Self).exc = ""
    /\ last.ret.n < min(Self).ret.n

\* C2: a stack constructed from a sequence S of ints and then only popped
\* returns, pop after pop, the elements of S in reverse order; every one of
\* the first len(S) pops succeeds, and after len(S) pops the stack is empty.
ConstructThenPopReverses ==
    (pc = "ready" /\ ctorArg # Unset /\ AllInts(ctorArg.items)) =>
        LET S == ctorArg.items
            k == Len(popLog)
        IN /\ k <= Len(S)
           /\ popLog = SubSeq(Reverse(S), 1, k)
           /\ (last.op = "pop" /\ last.exc # "" => k = Len(S))
           /\ (k = Len(S) => is_empty(Self))
           /\ (k < Len(S) => ~is_empty(Self))

\* C2 witness: a stack built from a longest sequence, with two different
\* values at its ends, has been popped until empty.
ConstructThenPopReversesWitness ==
    /\ pc = "ready" /\ ctorArg # Unset /\ AllInts(ctorArg.items)
    /\ Len(ctorArg.items) = MaxCtorLen
    /\ ctorArg.items[1] # ctorArg.items[MaxCtorLen]
    /\ Len(popLog) = MaxCtorLen
    /\ last.op = "pop" /\ last.exc = ""

\* C3: a push that fails with IncomparableValueError leaves top and top_min
\* as they were before the call.
PushFailureIsAtomic ==
    (last.op = "push" /\ last.exc = "IncomparableValueError") =>
        (top = last.top /\ top_min = last.top_min)

\* C4: pop on a stack whose top is the sentinel fails with
\* EmptyStackPopError and leaves top and top_min unchanged.
PopOnEmptyFails ==
    (last.op = "pop" /\ last.top = SENTINEL) =>
        /\ last.exc = "EmptyStackPopError"
        /\ top = last.top
        /\ top_min = last.top_min

\* C4 witness: pop has failed on a stack emptied by two pops of pushed ints.
PopOnEmptyFailsWitness ==
    /\ last.op = "pop" /\ last.exc = "EmptyStackPopError"
    /\ ordered
    /\ Len(popLog) >= 2

\* C5: every push of the sentinel, called directly or by the constructor,
\* fails with ProtectedValueError and leaves top and top_min unchanged.
SentinelPushFails ==
    /\ (last.op = "push" /\ last.arg = SENTINEL) =>
           /\ last.exc = "ProtectedValueError"
           /\ top = last.top
           /\ top_min = last.top_min
    /\ \A i \in 1..Len(last.pushes) :
           last.pushes[i].arg = SENTINEL =>
               /\ last.pushes[i].exc = "ProtectedValueError"
               /\ ~last.pushes[i].landed

\* C5 witness: the sentinel has been pushed on a non-empty stack.
SentinelPushFailsWitness ==
    /\ last.op = "push" /\ last.arg = SENTINEL
    /\ last.top # SENTINEL
    /\ Depth(top) >= 2

\* C6: in every state reached by push and pop calls, top and top_min are
\* each the sentinel or a pushed frame whose subframe links lead to the
\* sentinel.
ChainsStayValid ==
    pc = "ready" => (ValidChain(top) /\ ValidChain(top_min))

\* C7: construction from a sequence v1..vn pushes only v1, ..., vn, in
\* order, makes no push after one that failed, and fails if a push failed.
CtorPushesOnlyItsValues ==
    (last.op = "__init__" /\ Len(last.arg.items) = 1 /\ Iterable(last.arg.items[1])) =>
        LET S == last.arg.items[1].items
            log == last.pushes
        IN /\ Len(log) <= Len(S)
           /\ \A i \in 1..Len(log) :
                  /\ i <= Len(S) => log[i].arg = S[i]
                  /\ log[i].exc # "" => (i = Len(log) /\ last.exc = log[i].exc)

\* C8: is_empty is true exactly when as many pushes as pops have succeeded.
EmptyIffPushesEqualPops ==
    pc = "ready" => (is_empty(Self) <=> net = 0)

\* C9: __iter__ and __next__ leave top and top_min unchanged; an iteration
\* run to StopIteration with no other call in between has yielded the values
\* of the main chain from top to bottom, the reverse of the order they were
\* pushed in; and it has yielded what the complete iteration just before it
\* yielded.
IterationYieldsTopToBottom ==
    /\ (last.op \in {"__iter__", "__next__"}) =>
           (top = last.top /\ top_min = last.top_min)
    /\ (pc = "ready" /\ last.op = "__next__" /\ last.exc = "StopIteration" /\ iterClean) =>
           /\ yielded = ChainValues(top)
           /\ yielded = Reverse(present)
           /\ (prevList.valid => yielded = prevList.vals)

\* C9 witness: a second complete iteration over two different values.
IterationYieldsTopToBottomWitness ==
    /\ pc = "ready" /\ last.op = "__next__" /\ last.exc = "StopIteration" /\ iterClean
    /\ prevList.valid
    /\ Len(yielded) >= 2
    /\ yielded[1] # yielded[2]

\* C10: bottom() never raises and returns the earliest-pushed value still on
\* the main stack, None when the stack is empty; a push or pop that leaves
\* that value on the stack leaves bottom()'s result unchanged.
BottomIsEarliestPushed ==
    /\ pc = "ready" =>
           /\ bottom(Self).exc = ""
           /\ bottom(Self).ret = (IF present = <<>> THEN PyNone ELSE present[1])
           /\ (is_empty(Self) => bottom(Self).ret = PyNone)
    /\ (last.op = "bottom") =>
           (last.exc = "" /\ last.ret = (IF present = <<>> THEN PyNone ELSE present[1]))
    /\ (last.op \in {"push", "pop"} /\ last.top # SENTINEL /\ top # SENTINEL) =>
           bottom(Self).ret = bottom([top |-> last.top, top_min |-> last.top_min,
                                      iter_curr |-> iter_curr]).ret

\* C10 witness: bottom() has been called on a stack of at least two values
\* whose bottom differs from its top.
BottomIsEarliestPushedWitness ==
    /\ pc = "ready" /\ last.op = "bottom"
    /\ Len(present) >= 2
    /\ present[1] # present[Len(present)]
    /\ last.ret = present[1]

\* C11: construction with two or more positional arguments raises TypeError
\* and makes no push call.
CtorRejectsManyArgs ==
    (last.op = "__init__" /\ Len(last.arg.items) >= 2) =>
        /\ last.exc = "TypeError"
        /\ last.pushes = <<>>
        /\ pc = "failed"
        /\ present = <<>>

\* C11 witness: construction with three arguments has failed.
CtorRejectsManyArgsWitness ==
    /\ last.op = "__init__" /\ Len(last.arg.items) = 3
    /\ last.exc = "TypeError"

\* C12 as stated: for every single argument v, Stack(v) ends as Stack()
\* followed by push(v) does: the same exception, and on success the same
\* top and top_min.
SingleValueCtorIsPush ==
    (last.op = "__init__" /\ Len(last.arg.items) = 1) =>
        LET e == push(EmptyStack, last.arg.items[1])
        IN /\ last.exc = e.exc
           /\ e.exc = "" => (top = e.self.top /\ top_min = e.self.top_min)

\* C12 amended: for every single argument v that is not iterable, Stack(v)
\* ends as Stack() followed by push(v) does and holds exactly v.
NonIterableCtorIsPush ==
    (last.op = "__init__" /\ Len(last.arg.items) = 1 /\ ~Iterable(last.arg.items[1])) =>
        LET e == push(EmptyStack, last.arg.items[1])
        IN /\ last.exc = e.exc
           /\ top = e.self.top
           /\ top_min = e.self.top_min
           /\ pc = "ready"
           /\ ChainValues(top) = <<last.arg.items[1]>>
           /\ ChainValues(top_min) = <<last.arg.items[1]>>

\* C12 witness: a stack has been constructed from the single int 1.
NonIterableCtorIsPushWitness ==
    /\ last.op = "__init__" /\ last.arg.items = <<PyInt(1)>>
    /\ pc = "ready"
    /\ last.pushes # <<>>

\* the main stack held the values of Scenario, in push order, and k pops
\* have been made since
AfterScenarioPops(k) ==
    /\ pc = "ready"
    /\ Len(popLog) = k
    /\ present \o Reverse(popLog) = Scenario

\* C13 as stated: after pushing 10, 9, 11, 0, 10 min() is 0; the first pop
\* returns 10 and min() is still 0; after three more pops min() is 9; the
\* fifth pop returns 9 and leaves the stack empty.
ScenarioAsStated ==
    /\ AfterScenarioPops(0) => min(Self).ret = PyInt(0)
    /\ AfterScenarioPops(1) => (popLog[1] = PyInt(10) /\ min(Self).ret = PyInt(0))
    /\ AfterScenarioPops(4) => min(Self).ret = PyInt(9)
    /\ AfterScenarioPops(5) => (popLog[5] = PyInt(9) /\ is_empty(Self))

\* C13 amended: after pushing 10, 9, 11, 0, 10 min() is 0; the first pop
\* returns 10 and min() is still 0; after two more pops min() is 9; the
\* fourth pop returns 9 and min() is then 10; the fifth pop returns 10 and
\* leaves the stack empty.
ScenarioAsCoded ==
    /\ AfterScenarioPops(0) => (min(Self).exc = "" /\ min(Self).ret = PyInt(0))
    /\ AfterScenarioPops(1) => (popLog[1] = PyInt(10) /\ min(Self).ret = PyInt(0))
    /\ AfterScenarioPops(3) => min(Self).ret = PyInt(9)
    /\ AfterScenarioPops(4) => (popLog[4] = PyInt(9) /\ min(Self).ret = PyInt(10))
    /\ AfterScenarioPops(5) =>
           (popLog[5] = PyInt(10) /\ is_empty(Self) /\ top_min = SENTINEL)

\* C13 witness: the five values have been pushed and popped again.
ScenarioAsCodedWitness ==
    /\ AfterScenarioPops(5)
    /\ last.op = "pop" /\ last.exc = ""

\* C15: a successful push(value) sets top to a new frame over the old top,
\* and puts a new frame with the same value over the old top_min if and only
\* if the stack was empty or value <= top_min.value; otherwise top_min is
\* unchanged.
PushEffect ==
    (last.op = "push" /\ last.exc = "") =>
        /\ top = StackFrame(last.top, last.arg)
        /\ IF \/ last.top = SENTINEL
              \/ /\ HasFrameAttrs(last.top_min)
                 /\ Le(last.arg, last.top_min.items[2]) = "True"
           THEN top_min = StackFrame(last.top_min, last.arg)
           ELSE top_min = last.top_min

\* C16: a successful pop returns the value of the old top and sets top to
\* its subframe; it sets top_min to its subframe if and only if the returned
\* value equals top_min.value, and otherwise leaves top_min unchanged.  When
\* only ints were pushed and the popped value was the minimum and is still
\* on the main stack, min() still returns it.
PopEffect ==
    (last.op = "pop" /\ last.exc = "") =>
        /\ last.ret = last.top.items[2]
        /\ top = last.top.items[1]
        /\ IF last.top_min.items[2] = last.ret
           THEN top_min = last.top_min.items[1]
           ELSE top_min = last.top_min
        /\ (/\ ordered
            /\ last.ret = last.top_min.items[2]
            /\ \E i \in 1..Len(ChainValues(top)) : ChainValues(top)[i] = last.ret)
           => (min(Self).exc = "" /\ min(Self).ret = last.ret)

\* C16 witness: one of two equal copies of the minimum has been popped and
\* the other is still on the stack, under a larger value.
PopEffectWitness ==
    /\ last.op = "pop" /\ last.exc = "" /\ ordered
    /\ last.ret = last.top_min.items[2]
    /\ Depth(top) >= 2
    /\ ChainValues(top)[1] # last.ret
    /\ \E i \in 1..Len(ChainValues(top)) : ChainValues(top)[i] = last.ret
    /\ top_min = last.top_min.items[1]

\* C17: an iteration during which only non-mutating calls were made
\* (bottom, but no push and no pop) and which has reached StopIteration has
\* yielded every value the stack held, top to bottom, exactly once.
IterationUndisturbedByBottom ==
    (pc = "ready" /\ last.op = "__next__" /\ last.exc = "StopIteration" /\ ~iterMutated) =>
        yielded = iterSnap

\* C18: as long as neither bottom nor a new __iter__ intervenes, whatever
\* push and pop calls are made, the values yielded so far followed by those
\* the iteration still stands on are the values the stack held, top to
\* bottom, when the iteration was started; at StopIteration the iteration
\* has yielded exactly those values.
IterationSurvivesPushPop ==
    (pc = "ready" /\ ~iterShared) =>
        /\ yielded \o ChainValues(iter_curr) = iterSnap
        /\ (last.op = "__next__" /\ last.exc = "StopIteration") => yielded = iterSnap

\* C18 witness: an iteration over two values has ended after push or pop
\* calls were made during it, and the stack now holds other values.
IterationSurvivesPushPopWitness ==
    /\ pc = "ready" /\ ~iterShared /\ iterMutated
    /\ last.op = "__next__" /\ last.exc = "StopIteration"
    /\ Len(yielded) >= 2
    /\ yielded[1] # yielded[2]
    /\ ChainValues(top) # yielded

\* C19: min() never raises and never changes top or top_min, and on an
\* empty stack, one emptied by pops included, it returns None.
MinNeverRaises ==
    (pc = "ready" /\ last.op = "min") =>
        /\ last.exc = ""
        /\ top = last.top
        /\ top_min = last.top_min
        /\ is_empty(Self) => last.ret = PyNone

\* C20: after pushes and pops of totally ordered values, the values on the
\* auxiliary chain, top to bottom, are a subsequence of the values on the
\* main chain, top to bottom, and are non-decreasing from top to bottom; the
\* auxiliary chain is never longer than the main chain.
AuxIsSortedSubsequence ==
    (pc = "ready" /\ ordered) =>
        LET main == ChainValues(top)
            aux == ChainValues(top_min)
        IN /\ ValidChain(top) /\ ValidChain(top_min)
           /\ IsSubseq(aux, main)
           /\ \A i \in 1..(Len(aux) - 1) : Le(aux[i], aux[i + 1]) = "True"
           /\ Len(aux) <= Len(main)

\* C20 witness: a pop has removed the minimum from a stack of three values
\* whose auxiliary chain held two of them, and has left two values on the
\* main chain and the larger one of them on the auxiliary chain.
AuxIsSortedSubsequenceWitness ==
    /\ pc = "ready" /\ ordered
    /\ last.op = "pop" /\ last.exc = ""
    /\ Len(ChainValues(last.top_min)) = 2
    /\ Len(ChainValues(top_min)) = 1
    /\ Len(ChainValues(top)) = 2
    /\ ChainValues(top)[1] # ChainValues(top)[2]
    /\ ChainValues(top_min)[1] = ChainValues(top)[2]

\* C21: in every state reached by pushes and pops of totally ordered
\* values, top_min is the sentinel if and only if top is the sentinel.
ChainsEmptyTogether ==
    (pc = "ready" /\ ordered) =>
        ((top_min = SENTINEL) <=> (top = SENTINEL))

\* C21 witness: two pops in a row have returned two different values, and
\* the second has removed the last value from both chains at once.
ChainsEmptyTogetherWitness ==
    /\ pc = "ready" /\ ordered
    /\ last.op = "pop" /\ last.exc = ""
    /\ Len(popLog) >= 2
    /\ popLog[1] # popLog[2]
    /\ Depth(last.top) = 1 /\ Depth(last.top_min) = 1
    /\ top = SENTINEL /\ top_min = SENTINEL

====
